---- MODULE Spec2Model ----
(***************************************************************************)
(* Label, Button and the Button's event handling of rusty_gui              *)
(* (src/src/components/base_components.rs), with the text registry of the  *)
(* Layout the Button refers to.                                            *)
(*                                                                         *)
(* Coordinates (f32 / f64 in the source) are fixed-point integers counting *)
(* 1/PX of a pixel, and a scale is a numerator over ScaleDen; every value  *)
(* the model draws is small enough that the source's floating-point        *)
(* arithmetic on it is exact, so +, - and < are the integer ones.          *)
(* Screen and window dimensions are u32 and are halved by integer division *)
(* before they are converted to a float, as in the source.                 *)
(***************************************************************************)
EXTENDS Integers, Sequences, FiniteSets, TLC

VARIABLES
    transform,          \* Button.transform: position (units) and scale (numerators)
    callback,           \* Button.callback is Some(..)
    cursor_in_bounds,   \* Button.cursor_in_bounds
    enabled,            \* Button.enabled
    attached_text_id,   \* Button.attached_text_id: None or Some(id)
    constructed,        \* Button::new has run
    window,             \* the winit window handed to handle_event_callback
    layouts,            \* the text collection of every Layout: registry -> components
    label,              \* a Label held by the application itself
    brush,              \* the sections queued in the GlyphBrush
    cb_calls,           \* the callback invocations made by the last handle_event_callback
    panicked,           \* an unwrap() of None has unwound the last call
    op                  \* the last operation called, with its arguments

vars == <<transform, callback, cursor_in_bounds, enabled, attached_text_id,
          constructed, window, layouts, label, brush, cb_calls, panicked, op>>

-----------------------------------------------------------------------------
(* Bounds of the model *)

ScaleDen == 5
MaxDim == 2
MaxCur == 2
MaxText == 2

\* units per pixel: half a pixel and one ScaleDen-th of a pixel are both whole
PX == 2 * ScaleDen

\* Option<T>
None == <<>>
Some(v) == <<v>>
IsSome(o) == o # <<>>
Unwrap(o) == o[1]

\* WindowBuilder::default(): resolution (800, 600)
DefaultResolution == <<800, 600>>

ScaleNums == {-1, 0, 1}
Dims == 0..MaxDim
\* the positions drawn, in units
Positions == {<<0, 0>>, <<1, -1>>}
ScreenDims == (Dims \X Dims) \cup {DefaultResolution}
\* the scales drawn: positive on at least one axis
Scales == {s \in ScaleNums \X ScaleNums : s[1] > 0 \/ s[2] > 0}
Transforms == [position : Positions, scale : Scales]
WindowIds == {1, 2}
Windows == {[id |-> 1, width |-> d[1], height |-> d[2]] : d \in ScreenDims}

\* u32 / 2
Half(d) == d \div 2
\* (n as f32), (n as f64) of a pixel count
AsFloat(n) == n * PX
\* scale * v for a scale numerator sn (v a multiple of ScaleDen: exact)
ScaleMul(sn, v) == (sn * v) \div ScaleDen

-----------------------------------------------------------------------------
(* Label *)

VerticalAligns == {"Top", "Center", "Bottom"}
HorizontalAligns == {"Left", "Center", "Right"}

LabelNew(pos) ==
    [type |-> "Label", pos |-> pos, alignment |-> <<"Top", "Left">>, enabled |-> TRUE]

AlignVertical(l, a) == [l EXCEPT !.alignment = <<a, l.alignment[2]>>]
AlignHorizontal(l, a) == [l EXCEPT !.alignment = <<l.alignment[1], a>>]
LabelEnable(l) == [l EXCEPT !.enabled = TRUE]
LabelDisable(l) == [l EXCEPT !.enabled = FALSE]

SetPosAccumulating(l, pos, screen_dim) ==
    [l EXCEPT !.pos = <<l.pos[1] + pos[1] + AsFloat(Half(screen_dim[1])),
                        l.pos[2] + pos[2] + AsFloat(Half(screen_dim[2]))>>]

SetPosTrueHalf(l, pos, screen_dim) ==
    [l EXCEPT !.pos = <<pos[1] + (AsFloat(screen_dim[1]) \div 2),
                        pos[2] + (AsFloat(screen_dim[2]) \div 2)>>]

SetPos(l, pos, screen_dim) ==
    [l EXCEPT !.pos = <<pos[1] + AsFloat(Half(screen_dim[1])),
                        pos[2] + AsFloat(Half(screen_dim[2]))>>]

\* the brush after render_text
RenderTextAlways(l, b) ==
    Append(b, [screen_position |-> l.pos, layout |-> l.alignment])

RenderText(l, b) ==
    IF l.enabled
    THEN Append(b, [screen_position |-> l.pos, layout |-> l.alignment])
    ELSE b

-----------------------------------------------------------------------------
(* Button: the hit test and the event handler *)

\* Event<()>: a WindowEvent (CursorMoved or another one) of some window, or
\* an event that is no WindowEvent
\* the cursor positions drawn: around the window's centre, and its top-left
\* corner; in another window, along the diagonal through the centre
CursorAxis(d) == {AsFloat(Half(d)) + k : k \in -MaxCur..MaxCur}
CursorMoved(i, position) ==
    [kind |-> "WindowEvent", window_id |-> i, sub |-> "CursorMoved", position |-> position]
CursorEvents(win) ==
    {CursorMoved(win.id, <<x, y>>) : x \in CursorAxis(win.width), y \in CursorAxis(win.height)}
    \cup {CursorMoved(win.id, <<0, 0>>)}
    \cup {CursorMoved(i, <<AsFloat(Half(win.width)) + k, AsFloat(Half(win.height)) + k>>) :
            i \in WindowIds \ {win.id}, k \in -MaxCur..MaxCur}
OtherEvents ==
    {[kind |-> "WindowEvent", window_id |-> i, sub |-> "CloseRequested", position |-> <<0, 0>>] :
        i \in WindowIds}
    \cup {[kind |-> "MainEventsCleared", window_id |-> 0, sub |-> "", position |-> <<0, 0>>]}
Events(win) == CursorEvents(win) \cup OtherEvents

\* position.x -= (window.inner_size().width/2) as f64, and .y
Converted(position, win) ==
    <<position[1] - AsFloat(Half(win.width)), position[2] - AsFloat(Half(win.height))>>

\* ((scale*2.0) * (dimension/2) as f32) / 2.0
HalfExtentNotHalved(sn, d) == ScaleMul(sn * 2, AsFloat(Half(d)))

HalfExtent(sn, d) == ScaleMul(sn * 2, AsFloat(Half(d))) \div 2

HitTestInclusive(t, win, c) ==
    /\ t.position[1] - HalfExtent(t.scale[1], win.width) <= c[1]
    /\ t.position[2] - HalfExtent(t.scale[2], win.height) <= c[2]
    /\ t.position[1] + HalfExtent(t.scale[1], win.width) >= c[1]
    /\ t.position[2] + HalfExtent(t.scale[2], win.height) >= c[2]

\* the if / else of the CursorMoved arm, on the converted cursor c
HitTest(t, win, c) ==
    IF /\ t.position[1] - HalfExtent(t.scale[1], win.width) < c[1]
       /\ t.position[2] - HalfExtent(t.scale[2], win.height) < c[2]
    THEN /\ t.position[1] + HalfExtent(t.scale[1], win.width) > c[1]
         /\ t.position[2] + HalfExtent(t.scale[2], win.height) > c[2]
    ELSE FALSE

Matches(ev, win) == ev.kind = "WindowEvent" /\ ev.window_id = win.id

InBoundsResetOnMismatch(t, win, ev, cur) ==
    IF ev.kind = "WindowEvent" /\ ev.sub = "CursorMoved"
    THEN Matches(ev, win) /\ HitTest(t, win, Converted(ev.position, win))
    ELSE cur

\* the match on the event: cursor_in_bounds after it
InBoundsAfter(t, win, ev, cur) ==
    IF Matches(ev, win) /\ ev.sub = "CursorMoved"
    THEN HitTest(t, win, Converted(ev.position, win))
    ELSE cur

CallbackOnlyOnMatch(cb, ev, win, in_bounds, en) ==
    IF cb /\ Matches(ev, win)
    THEN <<[in_bounds |-> in_bounds, enabled |-> en]>>
    ELSE <<>>

\* match &self.callback: the invocations, each with the arguments it receives
CallbackCalls(cb, ev, win, in_bounds, en) ==
    IF cb
    THEN <<[in_bounds |-> in_bounds, enabled |-> en]>>
    ELSE <<>>

HandleEventCallbackFirst(ev) ==
    LET in_b == InBoundsAfter(transform, window, ev, cursor_in_bounds)
        calls == CallbackCalls(callback, ev, window, cursor_in_bounds, enabled)
    IN  /\ constructed
        /\ cursor_in_bounds' = in_b
        /\ cb_calls' = calls
        /\ \E written \in (IF calls # <<>> THEN BOOLEAN ELSE {enabled}) :
              enabled' = written
        /\ panicked' = FALSE
        /\ op' = [name |-> "handle_event_callback", event |-> ev]
        /\ UNCHANGED <<transform, callback, attached_text_id, constructed, window,
                       layouts, label, brush>>

\* Button::handle_event_callback; the callback may write the enabled flag
HandleEvent(ev) ==
    LET in_b == InBoundsAfter(transform, window, ev, cursor_in_bounds)
        calls == CallbackCalls(callback, ev, window, in_b, enabled)
    IN  /\ constructed
        /\ cursor_in_bounds' = in_b
        /\ cb_calls' = calls
        /\ \E written \in (IF calls # <<>> THEN BOOLEAN ELSE {enabled}) :
              enabled' = written
        /\ panicked' = FALSE
        /\ op' = [name |-> "handle_event_callback", event |-> ev]
        /\ UNCHANGED <<transform, callback, attached_text_id, constructed, window,
                       layouts, label, brush>>

-----------------------------------------------------------------------------
(* The Button on its own, receiving events *)

NoOp == [name |-> "new"]

InitHit ==
    /\ transform \in Transforms
    /\ callback \in BOOLEAN
    /\ window \in Windows
    /\ cursor_in_bounds = FALSE
    /\ enabled = TRUE
    /\ attached_text_id = None
    /\ constructed = TRUE
    /\ layouts = [r \in {1, 2} |-> <<>>]
    /\ label = LabelNew(<<0, 0>>)
    /\ brush = <<>>
    /\ cb_calls = <<>>
    /\ panicked = FALSE
    /\ op = NoOp

NextHit == \E ev \in Events(window) : HandleEvent(ev)

SpecHit == InitHit /\ [][NextHit]_vars

-----------------------------------------------------------------------------
(* Claims about the hit test and the event dispatch (under SpecHit) *)

Handled == op.name = "handle_event_callback"
IsCursorMove(ev) == ev.kind = "WindowEvent" /\ ev.sub = "CursorMoved"
HandledMatchingMove == Handled /\ IsCursorMove(op.event) /\ op.event.window_id = window.id
HandledForeignMove == Handled /\ IsCursorMove(op.event) /\ op.event.window_id # window.id

\* the quantities as the specification words them, per axis i
WinDim(i) == IF i = 1 THEN window.width ELSE window.height
\* the cursor less half the window's dimension
Centred(i) == op.event.position[i] - AsFloat(Half(WinDim(i)))
\* half_extent = scale * (window_dimension/2)
Extent(i) == ScaleMul(transform.scale[i], AsFloat(Half(WinDim(i))))
StrictlyInside(i) ==
    /\ transform.position[i] - Extent(i) < Centred(i)
    /\ Centred(i) < transform.position[i] + Extent(i)

\* position (0,0), scale (0.2,0.2), window 800x600
Scenario ==
    /\ transform.position = <<0, 0>>
    /\ transform.scale[1] * 5 = ScaleDen
    /\ transform.scale[2] * 5 = ScaleDen
    /\ <<window.width, window.height>> = <<800, 600>>

\* C1: after a CursorMoved event of the button's window, cursor_in_bounds is
\* true iff the cursor, less half the window's dimensions, lies strictly between
\* position - half_extent and position + half_extent on both axes; in the
\* 800x600 scenario the cursor (400,300) gives true and (0,0) gives false.
C1_InBoundsIffStrictlyInside ==
    HandledMatchingMove =>
        /\ cursor_in_bounds <=> (StrictlyInside(1) /\ StrictlyInside(2))
        /\ Scenario /\ op.event.position = <<AsFloat(400), AsFloat(300)>> => cursor_in_bounds
        /\ Scenario /\ op.event.position = <<0, 0>> => ~cursor_in_bounds

C1_Witness ==
    /\ HandledMatchingMove
    /\ Scenario
    /\ op.event.position = <<AsFloat(400), AsFloat(300)>>
    /\ cursor_in_bounds

AtCentre == \A i \in {1, 2} : Centred(i) = transform.position[i]
OnBoundary ==
    \E i \in {1, 2} : \/ Centred(i) = transform.position[i] + Extent(i)
                      \/ Centred(i) = transform.position[i] - Extent(i)
PositiveScale == transform.scale[1] > 0 /\ transform.scale[2] > 0

\* C2 as stated: with a positive scale, on a window of any size, a cursor
\* exactly at the position is in bounds and one exactly on a boundary is not.
C2_Original ==
    HandledMatchingMove /\ PositiveScale =>
        /\ AtCentre => cursor_in_bounds
        /\ OnBoundary => ~cursor_in_bounds

\* C2 amended: the same on a window at least 2 wide and 2 high, whose halved
\* dimensions are positive.
C2_CentreInBoundaryOut ==
    HandledMatchingMove /\ PositiveScale /\ window.width >= 2 /\ window.height >= 2 =>
        /\ AtCentre => cursor_in_bounds
        /\ OnBoundary => ~cursor_in_bounds

C2_Witness ==
    /\ HandledMatchingMove /\ PositiveScale /\ window.width >= 2 /\ window.height >= 2
    /\ OnBoundary
    /\ Centred(2) = transform.position[2]
    /\ ~cursor_in_bounds

\* C3: every handle_event_callback call returns, having invoked the callback
\* exactly once if there is one and not at all if there is none.
C3_CallbackOncePerEvent ==
    Handled => /\ ~panicked
               /\ Len(cb_calls) = (IF callback THEN 1 ELSE 0)

C3_Witness ==
    /\ Handled /\ callback /\ ~Matches(op.event, window)
    /\ Len(cb_calls) = 1
    /\ ~cb_calls[1].enabled

\* C4 as stated: after a cursor-move event of another window the flag is false.
C4_Original == HandledForeignMove => ~cursor_in_bounds

\* C4 amended: a cursor-move event of another window leaves cursor_in_bounds as
\* it was before the call.
C4_ForeignMoveKeepsFlag ==
    [][HandledForeignMove' => cursor_in_bounds' = cursor_in_bounds]_vars

C4_Witness == HandledForeignMove /\ cursor_in_bounds

\* C11: in one handle_event_callback call the hit test comes first and does not
\* look at the enabled flag: the callback receives the in-bounds value of the
\* event being handled, also when the Button is disabled; cursor_in_bounds
\* changes only on a CursorMoved event of the Button's window; and without a
\* callback the enabled flag is left as it was.
C11_HitTestBeforeCallbackUngated ==
    [][Handled' =>
          /\ HandledMatchingMove' =>
                cursor_in_bounds' = (StrictlyInside(1)' /\ StrictlyInside(2)')
          /\ ~HandledMatchingMove' => cursor_in_bounds' = cursor_in_bounds
          /\ callback => /\ Len(cb_calls') = 1
                         /\ cb_calls'[1].in_bounds = cursor_in_bounds'
                         /\ cb_calls'[1].enabled = enabled
          /\ ~callback => enabled' = enabled]_vars

\* a disabled Button with a callback, the cursor moving from outside to inside
C11_Witness ==
    /\ HandledMatchingMove /\ callback
    /\ StrictlyInside(1) /\ StrictlyInside(2)
    /\ ~cb_calls[1].enabled
    /\ cb_calls[1].in_bounds
    /\ cursor_in_bounds

-----------------------------------------------------------------------------
(* A Label held by the application: the setters *)

\* no Button has been constructed
NoButton ==
    /\ transform = [position |-> <<0, 0>>, scale |-> <<1, 1>>]
    /\ callback = FALSE
    /\ cursor_in_bounds = FALSE
    /\ enabled = TRUE
    /\ attached_text_id = None
    /\ constructed = FALSE
    /\ window = [id |-> 1, width |-> DefaultResolution[1], height |-> DefaultResolution[2]]
    /\ cb_calls = <<>>
    /\ panicked = FALSE

ButtonVars == <<transform, callback, cursor_in_bounds, enabled, attached_text_id,
                constructed, window, cb_calls, panicked>>

\* Label::set_pos; op keeps the arguments, the pos stored before the call and
\* whether the call before it was a set_pos with the same arguments
LabelSetPos(pos, screen_dim) ==
    /\ label' = SetPos(label, pos, screen_dim)
    /\ op' = [name |-> "set_pos", pos |-> pos, screen_dim |-> screen_dim,
              before |-> label.pos,
              repeated |-> /\ op.name = "set_pos"
                           /\ op.pos = pos
                           /\ op.screen_dim = screen_dim]
    /\ UNCHANGED <<ButtonVars, layouts, brush>>

LabelAlignVertical(a) ==
    /\ label' = AlignVertical(label, a)
    /\ op' = [name |-> "align_vertical"]
    /\ UNCHANGED <<ButtonVars, layouts, brush>>

LabelAlignHorizontal(a) ==
    /\ label' = AlignHorizontal(label, a)
    /\ op' = [name |-> "align_horizontal"]
    /\ UNCHANGED <<ButtonVars, layouts, brush>>

LabelEnableCall ==
    /\ label' = LabelEnable(label)
    /\ op' = [name |-> "Label::enable"]
    /\ UNCHANGED <<ButtonVars, layouts, brush>>

LabelDisableCall ==
    /\ label' = LabelDisable(label)
    /\ op' = [name |-> "Label::disable"]
    /\ UNCHANGED <<ButtonVars, layouts, brush>>

InitLabel ==
    /\ NoButton
    /\ layouts = [r \in {1, 2} |-> <<>>]
    /\ label = LabelNew(<<0, 0>>)
    /\ brush = <<>>
    /\ op = NoOp

NextLabel ==
    \/ \E pos \in Positions, screen_dim \in ScreenDims : LabelSetPos(pos, screen_dim)
    \/ \E a \in VerticalAligns : LabelAlignVertical(a)
    \/ \E a \in HorizontalAligns : LabelAlignHorizontal(a)
    \/ LabelEnableCall
    \/ LabelDisableCall

SpecLabel == InitLabel /\ [][NextLabel]_vars

\* half the screen dimensions as set_pos adds them, and as true halves
FlooredHalves(dim) == <<AsFloat(Half(dim[1])), AsFloat(Half(dim[2]))>>
TrueHalves(dim) == <<AsFloat(dim[1]) \div 2, AsFloat(dim[2]) \div 2>>
Plus(a, b) == <<a[1] + b[1], a[2] + b[2]>>

RepeatedSetPos == op.name = "set_pos" /\ op.repeated

\* C5 as stated: a second set_pos with the same arguments shifts the stored pos
\* by half the screen dimensions again.
C5_Original ==
    RepeatedSetPos => label.pos = Plus(op.before, FlooredHalves(op.screen_dim))

\* C5 amended: set_pos is idempotent; a second call with the same arguments
\* leaves the stored pos as the first call left it.
C5_SetPosIdempotent == RepeatedSetPos => label.pos = op.before

C5_Witness ==
    /\ RepeatedSetPos
    /\ op.pos # <<0, 0>>
    /\ Half(op.screen_dim[1]) > 0 /\ Half(op.screen_dim[2]) > 0
    /\ label.pos = op.before

\* C6 as stated: set_pos([x,y],(w,h)) stores [x + w/2, y + h/2] with the true
\* halves of w and h, odd ones included.
C6_Original ==
    op.name = "set_pos" => label.pos = Plus(op.pos, TrueHalves(op.screen_dim))

\* C6 amended: set_pos([x,y],(w,h)) stores [x + w div 2, y + h div 2], the
\* halves rounded down to whole pixels.
C6_SetPosAddsFlooredHalves ==
    op.name = "set_pos" => label.pos = Plus(op.pos, FlooredHalves(op.screen_dim))

C6_Witness ==
    /\ op.name = "set_pos"
    /\ op.screen_dim = <<1, 2>>
    /\ label.pos = Plus(op.pos, <<0, AsFloat(1)>>)

-----------------------------------------------------------------------------
(* A Label held by the application: the text pass *)

\* a section another component queued earlier in the frame
OtherSection == [screen_position |-> <<0, 0>>, layout |-> <<"Top", "Left">>]
\* the queue the brush holds when render_text is called
Queues == {<<>>, <<OtherSection>>}

\* Label::render_text on a brush holding the queue b
LabelRenderText(b) ==
    /\ brush' = RenderText(label, b)
    /\ op' = [name |-> "render_text", brush |-> b]
    /\ UNCHANGED <<ButtonVars, layouts, label>>

NextRender ==
    \/ \E pos \in Positions : LabelSetPos(pos, DefaultResolution)
    \/ \E a \in VerticalAligns : LabelAlignVertical(a)
    \/ \E a \in HorizontalAligns : LabelAlignHorizontal(a)
    \/ LabelEnableCall
    \/ LabelDisableCall
    \/ \E b \in Queues : LabelRenderText(b)

SpecRender == InitLabel /\ [][NextRender]_vars

\* C9: one render_text call queues nothing when the Label is disabled and
\* exactly one section, at the stored pos with the stored alignment pair, when
\* it is enabled; the Label itself is left as it was.
C9_RenderTextGuardedByEnabled ==
    [][op'.name = "render_text" =>
          /\ label' = label
          /\ brush' = IF label.enabled
                      THEN op'.brush \o <<[screen_position |-> label.pos,
                                           layout |-> label.alignment]>>
                      ELSE op'.brush]_vars

C9_Witness ==
    /\ op.name = "render_text"
    /\ ~label.enabled
    /\ label.pos # <<0, 0>>
    /\ label.alignment = <<"Center", "Right">>
    /\ brush = op.brush

-----------------------------------------------------------------------------
(* The Button and the text components of the Layouts *)

Registries == {1, 2}

\* a text component that is no Label
OtherComponent == [type |-> "Other"]

\* Layout::add_text_component: the collection afterwards and the identifier
AddTextComponent(reg, comp) == [text |-> Append(reg, comp), id |-> Len(reg)]

\* Layout::borrow_text_component_as_type_mut::<Label>: the place of the Label
\* the identifier resolves to, or None
BorrowTextAsLabel(reg, id) ==
    IF id < Len(reg) /\ reg[id + 1].type = "Label" THEN Some(id + 1) ELSE None

TextCount == Len(layouts[1]) + Len(layouts[2])

\* Button::new(transform, callback, renderer, text, text_size, layout)
ButtonNew(t, cb, text, r) ==
    LET text_label ==
            AlignVertical(AlignHorizontal(LabelNew(<<0, 0>>), "Center"), "Center")
        added == AddTextComponent(layouts[r], text_label)
    IN  /\ ~constructed
        /\ text => TextCount < MaxText
        /\ layouts' = IF text THEN [layouts EXCEPT ![r] = added.text] ELSE layouts
        /\ attached_text_id' = IF text THEN Some(added.id) ELSE None
        /\ transform' = t
        /\ callback' = cb
        /\ cursor_in_bounds' = FALSE
        /\ enabled' = TRUE
        /\ constructed' = TRUE
        /\ op' = [name |-> "Button::new", layout |-> r]
        /\ UNCHANGED <<window, label, brush, cb_calls, panicked>>

\* the application adds a text component of its own to a Layout
LayoutAddText(r, comp) ==
    /\ ~panicked
    /\ TextCount < MaxText
    /\ layouts' = [layouts EXCEPT ![r] = AddTextComponent(layouts[r], comp).text]
    /\ op' = [name |-> "add_text_component", layout |-> r]
    /\ UNCHANGED <<ButtonVars, label, brush>>

UpdateTextAllLabels(reg, t, id, screen_dim) ==
    [i \in 1..Len(reg) |->
        IF reg[i].type = "Label"
        THEN [reg[i] EXCEPT !.pos = <<t.position[1] + AsFloat(Half(screen_dim[1])),
                                      t.position[2] + AsFloat(Half(screen_dim[2]))>>]
        ELSE reg[i]]

\* the assignment of update_text, once the lookup has given a Label
UpdateTextPos(reg, t, id, screen_dim) ==
    [reg EXCEPT ![Unwrap(BorrowTextAsLabel(reg, id))].pos =
        <<t.position[1] + AsFloat(Half(screen_dim[1])),
          t.position[2] + AsFloat(Half(screen_dim[2]))>>]

\* Button::update_text(layout, screen_dim): unwrap() of a lookup that gave
\* None panics
ButtonUpdateText(r, screen_dim) ==
    /\ constructed /\ ~panicked
    /\ op' = [name |-> "update_text", layout |-> r, screen_dim |-> screen_dim]
    /\ IF IsSome(attached_text_id)
       THEN IF IsSome(BorrowTextAsLabel(layouts[r], Unwrap(attached_text_id)))
            THEN /\ layouts' = [layouts EXCEPT ![r] =
                        UpdateTextPos(layouts[r], transform, Unwrap(attached_text_id),
                                      screen_dim)]
                 /\ panicked' = FALSE
            ELSE /\ panicked' = TRUE
                 /\ UNCHANGED layouts
       ELSE UNCHANGED <<layouts, panicked>>
    /\ UNCHANGED <<transform, callback, cursor_in_bounds, enabled, attached_text_id,
                   constructed, window, label, brush, cb_calls>>

\* the application disables or enables the Label a Button refers to, through
\* the lookup and Label::disable / Label::enable
LayoutLabelSetEnabled(r, en) ==
    LET at == BorrowTextAsLabel(layouts[r], Unwrap(attached_text_id))
    IN  /\ constructed /\ ~panicked
        /\ IsSome(attached_text_id)
        /\ IsSome(at)
        /\ layouts' = [layouts EXCEPT ![r][Unwrap(at)] =
                            IF en THEN LabelEnable(@) ELSE LabelDisable(@)]
        /\ op' = [name |-> IF en THEN "Label::enable" ELSE "Label::disable", layout |-> r]
        /\ UNCHANGED <<ButtonVars, label, brush>>

\* Button::enable
ButtonEnable ==
    /\ constructed /\ ~panicked
    /\ enabled' = TRUE
    /\ op' = [name |-> "Button::enable"]
    /\ UNCHANGED <<transform, callback, cursor_in_bounds, attached_text_id, constructed,
                   window, layouts, label, brush, cb_calls, panicked>>

ButtonDisableWithLabel ==
    /\ constructed /\ ~panicked
    /\ enabled' = FALSE
    /\ layouts' = IF /\ IsSome(attached_text_id)
                     /\ IsSome(BorrowTextAsLabel(layouts[1], Unwrap(attached_text_id)))
                  THEN [layouts EXCEPT ![1][Unwrap(attached_text_id) + 1] = LabelDisable(@)]
                  ELSE layouts
    /\ op' = [name |-> "Button::disable"]
    /\ UNCHANGED <<transform, callback, cursor_in_bounds, attached_text_id, constructed,
                   window, label, brush, cb_calls, panicked>>

\* Button::disable
ButtonDisable ==
    /\ constructed /\ ~panicked
    /\ enabled' = FALSE
    /\ op' = [name |-> "Button::disable"]
    /\ UNCHANGED <<transform, callback, cursor_in_bounds, attached_text_id, constructed,
                   window, layouts, label, brush, cb_calls, panicked>>

\* Button::render: the draw calls issued on the render pass
ButtonRender(en) == IF en THEN <<[vertices |-> 6, instances |-> 1]>> ELSE <<>>

InitLayout ==
    /\ NoButton
    /\ layouts = [r \in Registries |-> <<>>]
    /\ label = LabelNew(<<0, 0>>)
    /\ brush = <<>>
    /\ op = NoOp

\* the events drawn here: the cursor at the window's centre and at its corner
LayoutEvents ==
    {CursorMoved(window.id, <<AsFloat(Half(window.width)), AsFloat(Half(window.height))>>),
     CursorMoved(window.id, <<0, 0>>)}

\* the screen dimensions update_text is called with
UpdateDims == {<<MaxDim, 1>>, DefaultResolution}

NextLayout ==
    \/ \E p \in Positions, text \in BOOLEAN :
          ButtonNew([position |-> p, scale |-> <<1, 1>>], FALSE, text, 1)
    \/ \E r \in Registries, comp \in {OtherComponent, LabelNew(<<0, 0>>)} :
          LayoutAddText(r, comp)
    \/ \E r \in Registries, screen_dim \in UpdateDims : ButtonUpdateText(r, screen_dim)
    \/ \E r \in Registries, en \in BOOLEAN : LayoutLabelSetEnabled(r, en)
    \/ ButtonEnable
    \/ ButtonDisable
    \/ \E ev \in LayoutEvents : ~panicked /\ HandleEvent(ev)

SpecLayout == InitLayout /\ [][NextLayout]_vars

\* the Label the Button's identifier resolves to in registry r, in collection regs
Resolves(regs, r) ==
    /\ IsSome(attached_text_id)
    /\ IsSome(BorrowTextAsLabel(regs[r], Unwrap(attached_text_id)))
Attached(regs, r) == regs[r][Unwrap(attached_text_id) + 1]

\* C7: update_text never fails; without a Label to resolve to it returns
\* normally, having changed nothing.
C7_UpdateTextNeverPanics == op.name = "update_text" => ~panicked

\* C8: update_text(registry, screen_dim) of a Button with text overwrites the
\* pos of the one Label stored in that registry under the Button's identifier
\* with the transform position plus half the screen dimensions (halved as
\* integers); a lookup by the identifier shows the new pos, every other text
\* component and the Button's own fields are as before.
C8_UpdateTextMovesOnlyItsLabel ==
    [][op'.name = "update_text" /\ ~panicked' /\ IsSome(attached_text_id) =>
          LET r == op'.layout
              at == Unwrap(attached_text_id) + 1
              pos == Plus(transform.position, FlooredHalves(op'.screen_dim))
          IN  /\ Resolves(layouts', r)
              /\ Attached(layouts', r) = [Attached(layouts, r) EXCEPT !.pos = pos]
              /\ \A q \in Registries :
                    /\ Len(layouts'[q]) = Len(layouts[q])
                    /\ \A j \in 1..Len(layouts[q]) :
                          <<q, j>> # <<r, at>> => layouts'[q][j] = layouts[q][j]
              /\ UNCHANGED <<transform, callback, cursor_in_bounds, enabled,
                             attached_text_id>>]_vars

C8_Witness ==
    /\ op.name = "update_text" /\ ~panicked
    /\ attached_text_id = Some(1)
    /\ op.layout = 1 /\ op.screen_dim = <<MaxDim, 1>>
    /\ layouts[1][1] = LabelNew(<<0, 0>>)
    /\ layouts[1][2].pos = Plus(transform.position, <<AsFloat(Half(MaxDim)), 0>>)
    /\ transform.position # <<0, 0>>

\* C10: Button::enable and Button::disable write the Button's enabled flag and
\* nothing else: cursor_in_bounds, the transform, the label identifier and every
\* text component stay as they were, so after disable the quad is not drawn
\* while the text pass still queues the Label's section.
C10_EnableDisableWriteOnlyEnabled ==
    [][op'.name \in {"Button::enable", "Button::disable"} =>
          /\ enabled' = (op'.name = "Button::enable")
          /\ UNCHANGED <<transform, callback, cursor_in_bounds, attached_text_id, layouts>>
          /\ op'.name = "Button::disable" =>
                /\ ButtonRender(enabled') = <<>>
                /\ \A r \in Registries :
                      Resolves(layouts, r) /\ Attached(layouts, r).enabled =>
                          Len(RenderText(Attached(layouts', r), <<>>)) = 1]_vars

C10_Witness ==
    /\ op.name = "Button::disable"
    /\ ~enabled
    /\ cursor_in_bounds
    /\ Resolves(layouts, 1)
    /\ Attached(layouts, 1).enabled

====
